---- MODULE Spec2Model ----
(***************************************************************************)
(* Model of gateway-worker: the job queue (package queue) and the          *)
(* certificate lifecycle manager (package certificate).                    *)
(***************************************************************************)
EXTENDS Integers, Sequences, FiniteSets, TLC

\* ---------------------------------------------------------------- bounds
\* Capacity of the jobs channel (1000 in New(); scaled down for checking).
QueueCap == 2
\* Number of AddJob calls that are accepted over a run.
MaxJobs == 3
\* Number of ticks of the monitor's ticker over a run.
MaxTicks == 2
\* Number of configurations the config.Storage holds over a run.
MaxConfigs == 2
\* Number of migrations the Migrator knows.
MaxMigrations == 3

\* ------------------------------------------------------------- job queue
\* Number of workers started by Start (5 in New(); scaled down).
NumWorkers == 2
Workers == 1..NumWorkers

JobTypeCertificateRenewal == "certificate_renewal"
JobTypeLogProcessing == "log_processing"
\* The seven job types of the const block.
JobTypes ==
  {"certificate_renewal", "certificate_validation", "config_update",
   "log_processing", "analytics", "database_cleanup", "integration"}
\* Domain carried in the payload of a certificate job.
PayloadDomain == "a"
\* The jobs callers submit in the model (Type, Priority, Retry, MaxRetry):
\* certificate and maintenance jobs at both priorities (lower = more urgent),
\* a job whose Retry exceeds its MaxRetry (AddJob validates neither field),
\* and a job whose type is not in the const block.
JobInputs ==
  {<<JobTypeCertificateRenewal, 1, 0, 1>>,
   <<JobTypeCertificateRenewal, 1000, 0, 1>>,
   <<JobTypeLogProcessing, 1, 0, 1>>,
   <<JobTypeLogProcessing, 1000, 0, 1>>,
   <<JobTypeLogProcessing, 1000, 2, 1>>,
   <<"bogus", 1000, 0, 1>>}

NoJob == [ID |-> 0]

\* The Job struct; ID is the caller's identifier, fresh for each accepted job.
Job(id, t, d, p, r, m) ==
  [ID |-> id, Type |-> t, Domain |-> d, Priority |-> p, Retry |-> r, MaxRetry |-> m]

VARIABLES
  jobs,      \* Service.jobs: the buffered channel, oldest element first
  wpc,       \* position of each worker goroutine
  cur,       \* the job a worker received and is processing
  ctxDone,   \* the context passed to Start / MonitorCertificates is cancelled
  addErr,    \* result of the last AddJob call
  lastDone,  \* what the last processJob call did with its job
  nextID,    \* next fresh job ID
  finished,  \* IDs of the jobs for which processJob has returned
  spc,       \* position of the goroutine that called Start
  store,         \* the records the Storage holds
  now,           \* the clock, in days
  mpc,           \* position of the MonitorCertificates goroutine
  certificates,  \* checkAndRenewCertificates: the slice List returned
  idx,           \* checkAndRenewCertificates: position of the range loop
  calls,         \* calls made on the collaborators since the last tick
  ticks,         \* ticks delivered by the monitor's ticker
  status,        \* what the last GetCertificateStatus call returned
  alerts,        \* domains for which the manager has logged or raised a fault
  missed,        \* domains whose last renewCertificate call returned an error
  proc,          \* the process: position of main()
  elapsed,       \* clock steps since main() created shutdownCtx
  gpc,           \* position of the goroutine running startGRPCServer
  hpc,           \* position of the goroutine running startHTTPServer
  configs,       \* config.Storage: the configurations stored, oldest first
  deployments,   \* what the config.Distributor has deployed
  ccalls,        \* calls the last configuration update made on the collaborators
  cerr,          \* the error the last configuration update returned
  creq,          \* the last configuration update that was called
  pending,       \* Migrator: the migrations not applied yet, in the order it returns them
  applied,       \* Migrator: the migrations applied, in the order of application
  mcalls,        \* calls the last ApplyMigrations made on the Migrator
  merr           \* the error the last ApplyMigrations returned

qvars == <<jobs, wpc, cur, addErr, lastDone, nextID, finished, spc>>
cvars == <<store, now, mpc, certificates, idx, calls, ticks, status, alerts, missed>>
mvars == <<proc, elapsed, gpc, hpc>>
avars == <<configs, deployments, ccalls, cerr, creq, pending, applied, mcalls, merr>>
vars == <<qvars, cvars, mvars, avars, ctxDone>>

\* Service.AddJob: non-blocking send; the default branch is taken exactly
\* when the channel buffer is full.
AddJobFullMutant(q, job) == [q |-> Append(q, job), err |-> "nil"]

AddJobResult(q, job) ==
  IF Len(q) < QueueCap
  THEN [q |-> Append(q, job), err |-> "nil"]
  ELSE [q |-> q, err |-> "ErrQueueFull"]

AddJobFrom(inputs) ==
  /\ nextID <= MaxJobs
  /\ \E in \in inputs :
       LET r == AddJobResult(jobs, Job(nextID, in[1], PayloadDomain, in[2], in[3], in[4]))
       IN /\ jobs' = r.q
          /\ addErr' = r.err
          /\ nextID' = IF r.err = "nil" THEN nextID + 1 ELSE nextID
  /\ UNCHANGED <<wpc, cur, ctxDone, lastDone, finished, spc, cvars, mvars, avars>>

AddJob == AddJobFrom(JobInputs)

\* Service.Start: launches the workers (the goroutines then run worker()).
Start ==
  /\ spc = "init"
  /\ \A w \in Workers : wpc[w] = "init"
  /\ wpc' = [w \in Workers |-> "idle"]
  /\ spc' = "waiting"
  /\ UNCHANGED <<jobs, cur, ctxDone, addErr, lastDone, nextID, finished, cvars, mvars, avars>>

\* Service.Start: s.wg.Wait() returns once every worker has called wg.Done(),
\* and Start returns nil.
StartReturn ==
  /\ spc = "waiting"
  /\ \A w \in Workers : wpc[w] = "stopped"
  /\ spc' = "returned"
  /\ UNCHANGED <<jobs, wpc, cur, ctxDone, addErr, lastDone, nextID, finished, cvars, mvars, avars>>

\* The element a receive on the channel yields: the oldest one.
ReceiveIndexMutant(q) == Len(q)

ReceiveIndexCertFirstMutant(q) ==
  LET certs == {i \in 1..Len(q) : q[i].Type = JobTypeCertificateRenewal}
  IN IF certs = {} THEN 1 ELSE CHOOSE i \in certs : \A j \in certs : i <= j

ReceiveIndex(q) == 1

RemoveAtMutant(q, i) == q

RemoveAt(q, i) == SubSeq(q, 1, i - 1) \o SubSeq(q, i + 1, Len(q))

\* worker(): the select takes the `job := <-s.jobs` case.  When ctx.Done()
\* is ready as well, select picks either case.
WorkerReceive(w) ==
  /\ wpc[w] = "idle"
  /\ Len(jobs) > 0
  /\ cur' = [cur EXCEPT ![w] = jobs[ReceiveIndex(jobs)]]
  /\ jobs' = RemoveAt(jobs, ReceiveIndex(jobs))
  /\ wpc' = [wpc EXCEPT ![w] = "processing"]
  /\ UNCHANGED <<ctxDone, addErr, lastDone, nextID, finished, spc, cvars, mvars, avars>>

\* processJob's switch: the handler a job type is dispatched to.
Handler(t) ==
  IF t \in JobTypes THEN t ELSE "none"

\* processJob: dispatches on job.Type.  The handlers return nothing, so
\* whether a handler's work succeeded or failed (ok) is not visible to
\* processJob; the job is discarded in both cases and nothing is sent back
\* to the channel.
ProcessJobResultMutant(q, job, ok) ==
  IF Handler(job.Type) = "none"
  THEN [q |-> Append(q, job), done |-> "failed"]
  ELSE [q |-> q, done |-> IF ok THEN "ok" ELSE "failed"]

ProcessJobResult(q, job, ok) ==
  [q |-> q,
   done |-> IF Handler(job.Type) = "none" THEN "dropped"
            ELSE IF ok THEN "ok" ELSE "failed"]

WorkerProcessCrashMutant(w) ==
  /\ wpc[w] = "processing"
  /\ \E ok \in BOOLEAN :
       LET r == ProcessJobResult(jobs, cur[w], ok)
       IN /\ jobs' = r.q
          /\ lastDone' = r.done
          /\ wpc' = [wpc EXCEPT ![w] = IF r.done = "failed" THEN "stopped" ELSE "idle"]
  /\ finished' = finished \cup {cur[w].ID}
  /\ cur' = [cur EXCEPT ![w] = NoJob]
  /\ UNCHANGED <<ctxDone, addErr, nextID, spc, cvars, mvars, avars>>

WorkerProcess(w) ==
  /\ wpc[w] = "processing"
  /\ \E ok \in BOOLEAN :
       LET r == ProcessJobResult(jobs, cur[w], ok)
       IN /\ jobs' = r.q
          /\ lastDone' = r.done
  /\ finished' = finished \cup {cur[w].ID}
  /\ cur' = [cur EXCEPT ![w] = NoJob]
  /\ wpc' = [wpc EXCEPT ![w] = "idle"]
  /\ UNCHANGED <<ctxDone, addErr, nextID, spc, cvars, mvars, avars>>

\* worker(): the select takes the `<-ctx.Done()` case and the worker returns.
WorkerStopMutant(w) ==
  /\ wpc[w] \in {"idle", "processing"}
  /\ ctxDone
  /\ wpc' = [wpc EXCEPT ![w] = "stopped"]
  /\ UNCHANGED <<jobs, cur, ctxDone, addErr, lastDone, nextID, finished, spc, cvars, mvars, avars>>

WorkerStop(w) ==
  /\ wpc[w] = "idle"
  /\ ctxDone
  /\ wpc' = [wpc EXCEPT ![w] = "stopped"]
  /\ UNCHANGED <<jobs, cur, ctxDone, addErr, lastDone, nextID, finished, spc, cvars, mvars, avars>>

\* main(): cancel() after the shutdown signal.
Cancel ==
  /\ ~ctxDone
  /\ ctxDone' = TRUE
  /\ UNCHANGED <<qvars, cvars, mvars, avars>>

QueueInit ==
  /\ jobs = <<>>
  /\ wpc = [w \in Workers |-> "init"]
  /\ cur = [w \in Workers |-> NoJob]
  /\ addErr = "none"
  /\ lastDone = "none"
  /\ nextID = 1
  /\ finished = {}
  /\ spc = "init"

\* --------------------------------------------------- certificate manager
Domains == {"a", "b"}

CertificateTypeProduction == "production"
CertificateTypeTemporary == "temporary"

\* checkAndRenewCertificates renews within 30 days of expiry.
RenewalWindowDays == 30
\* deployTemporaryCertificate: 14 days validity.
TemporaryValidityDays == 14
\* MonitorCertificates: the ticker's period, 24 hours.
TickDays == 1
\* determineStatus: "expiring" up to 7 days, "renewal_due" up to 30 days.
ExpiringDays == 7
RenewalDueDays == 30

\* Expiry days of the certificates the store holds at the start.
InitExpiries == {1, 5, 8, 32, 60}
\* Lifetimes (days from issuance) of the certificates the authority returns.
RenewedLifetimes == {3, 90}
\* Where renewCertificate's chain of calls can fail.
FailPoints == {"acme", "validate", "store", "deploy", "none"}

\* The Certificate struct (key material left out).
Cert(d, ty, e) == [Domain |-> d, Type |-> ty, Expiry |-> e]
NoCert == [Domain |-> ""]

\* A call on a collaborator (ACMEClient, Validator, Storage, Distributor) and
\* the goroutine that made it.
Call(op, d, ok, reason, cert) ==
  [op |-> op, domain |-> d, ok |-> ok, reason |-> reason, cert |-> cert,
   task |-> "monitor"]

\* Storage.Store: one record per domain (certificates.domain is UNIQUE), so a
\* successful Store replaces the domain's record.
StorageStoreMutant(st, cert) == st \cup {cert}

StorageStoreLostMutant(st, cert) == st

StorageStore(st, cert) ==
  {c \in st : c.Domain # cert.Domain} \cup {cert}

\* Storage.List: all stored records, in an order the storage chooses.
StorageList(st) ==
  {q \in [1..Cardinality(st) -> st] : \A i, j \in 1..Cardinality(st) : i # j => q[i] # q[j]}

\* renewCertificate: RenewCertificate, ValidateCertificate, Store, Deploy, in
\* this order, returning at the first error.  fail names the call that fails,
\* life the lifetime of the certificate the authority issues at time t.
renewCertificateMutant(st, domain, fail, life, t) ==
  LET newCert == Cert(domain, CertificateTypeProduction, t + life)
      cRenew(ok) == Call("RenewCertificate", domain, ok, "", NoCert)
      cValid(ok) == Call("ValidateCertificate", domain, ok, "", newCert)
      cStore(ok) == Call("Store", domain, ok, "", newCert)
      cDeploy(ok) == Call("Deploy", domain, ok, "", newCert)
  IN CASE fail = "acme" ->
            [err |-> TRUE, store |-> st, calls |-> <<cRenew(FALSE)>>]
       [] fail = "store" ->
            [err |-> TRUE, store |-> st,
             calls |-> <<cRenew(TRUE), cStore(FALSE)>>]
       [] fail = "validate" ->
            [err |-> TRUE, store |-> StorageStore(st, newCert),
             calls |-> <<cRenew(TRUE), cStore(TRUE), cValid(FALSE)>>]
       [] fail = "deploy" ->
            [err |-> TRUE, store |-> StorageStore(st, newCert),
             calls |-> <<cRenew(TRUE), cStore(TRUE), cValid(TRUE), cDeploy(FALSE)>>]
       [] OTHER ->
            [err |-> FALSE, store |-> StorageStore(st, newCert),
             calls |-> <<cRenew(TRUE), cStore(TRUE), cValid(TRUE), cDeploy(TRUE)>>]

renewCertificate(st, domain, fail, life, t) ==
  LET newCert == Cert(domain, CertificateTypeProduction, t + life)
      cRenew(ok) == Call("RenewCertificate", domain, ok, "", NoCert)
      cValid(ok) == Call("ValidateCertificate", domain, ok, "", newCert)
      cStore(ok) == Call("Store", domain, ok, "", newCert)
      cDeploy(ok) == Call("Deploy", domain, ok, "", newCert)
  IN CASE fail = "acme" ->
            [err |-> TRUE, store |-> st, calls |-> <<cRenew(FALSE)>>]
       [] fail = "validate" ->
            [err |-> TRUE, store |-> st,
             calls |-> <<cRenew(TRUE), cValid(FALSE)>>]
       [] fail = "store" ->
            [err |-> TRUE, store |-> st,
             calls |-> <<cRenew(TRUE), cValid(TRUE), cStore(FALSE)>>]
       [] fail = "deploy" ->
            [err |-> TRUE, store |-> StorageStore(st, newCert),
             calls |-> <<cRenew(TRUE), cValid(TRUE), cStore(TRUE), cDeploy(FALSE)>>]
       [] OTHER ->
            [err |-> FALSE, store |-> StorageStore(st, newCert),
             calls |-> <<cRenew(TRUE), cValid(TRUE), cStore(TRUE), cDeploy(TRUE)>>]

\* deployTemporaryCertificate: builds the temporary certificate at time t and
\* hands it to DeployTemporary (generateSelfSignedCertificate returns nil).
deployTemporaryCertificateMutant(domain, reason, ok, t) ==
  LET tempCert == [Domain |-> domain, Type |-> CertificateTypeTemporary,
                   Created |-> t, LastUpdated |-> t,
                   Expiry |-> t + RenewalWindowDays, Reason |-> reason,
                   ValidityDays |-> TemporaryValidityDays, IsTemporary |-> TRUE]
  IN [err |-> ~ok,
      calls |-> <<Call("DeployTemporary", domain, ok, reason, tempCert)>>]

deployTemporaryCertificate(domain, reason, ok, t) ==
  LET tempCert == [Domain |-> domain, Type |-> CertificateTypeTemporary,
                   Created |-> t, LastUpdated |-> t,
                   Expiry |-> t + TemporaryValidityDays, Reason |-> reason,
                   ValidityDays |-> TemporaryValidityDays, IsTemporary |-> TRUE]
  IN [err |-> ~ok,
      calls |-> <<Call("DeployTemporary", domain, ok, reason, tempCert)>>]

\* Body of the range loop of checkAndRenewCertificates for a certificate that
\* is due: renewCertificate and, when it returns an error, the fallback.  The
\* branch for an error of deployTemporaryCertificate is empty: nothing is
\* logged or raised (alerts).
renewOrFallbackMutant(st, domain, fail, life, tempOK, t) ==
  LET r == renewCertificate(st, domain, fail, life, t)
  IN IF r.err /\ fail = "acme"
     THEN [store |-> r.store, alerts |-> {},
           calls |-> r.calls \o
             deployTemporaryCertificate(domain, "renewal_failed", tempOK, t).calls]
     ELSE [store |-> r.store, alerts |-> {}, calls |-> r.calls]

renewOrFallbackStoreMutant(st, domain, fail, life, tempOK, t) ==
  LET r == renewCertificate(st, domain, fail, life, t)
  IN IF r.err
     THEN [store |-> StorageStore(r.store, Cert(domain, CertificateTypeTemporary,
                                                t + TemporaryValidityDays)),
           alerts |-> {},
           calls |-> r.calls \o
             deployTemporaryCertificate(domain, "renewal_failed", tempOK, t).calls]
     ELSE [store |-> r.store, alerts |-> {}, calls |-> r.calls]

renewOrFallbackDeployMutant(st, domain, fail, life, tempOK, t) ==
  LET r == renewCertificate(st, domain, fail, life, t)
  IN IF r.err /\ fail # "deploy"
     THEN [store |-> r.store, alerts |-> {},
           calls |-> r.calls \o
             deployTemporaryCertificate(domain, "renewal_failed", tempOK, t).calls]
     ELSE [store |-> r.store, alerts |-> {}, calls |-> r.calls]

renewOrFallbackRetryMutant(st, domain, fail, life, tempOK, t) ==
  LET r == renewCertificate(st, domain, fail, life, t)
      again == renewCertificate(r.store, domain, fail, life, t)
  IN IF r.err
     THEN [store |-> again.store, alerts |-> {},
           calls |-> r.calls \o again.calls \o
             deployTemporaryCertificate(domain, "renewal_failed", tempOK, t).calls]
     ELSE [store |-> r.store, alerts |-> {}, calls |-> r.calls]

renewOrFallback(st, domain, fail, life, tempOK, t) ==
  LET r == renewCertificate(st, domain, fail, life, t)
  IN IF r.err
     THEN [store |-> r.store, alerts |-> {},
           calls |-> r.calls \o
             deployTemporaryCertificate(domain, "renewal_failed", tempOK, t).calls]
     ELSE [store |-> r.store, alerts |-> {}, calls |-> r.calls]

\* MonitorCertificates: the select takes the `<-ticker.C` case and
\* checkAndRenewCertificates starts with List.  When ctx.Done() is ready as
\* well, select picks either case.
TickListErrorExitsMutant ==
  /\ mpc = "waiting"
  /\ ticks < MaxTicks
  /\ ticks' = ticks + 1
  /\ now' = now + TickDays
  /\ \E ok \in BOOLEAN :
       IF ok
       THEN /\ \E q \in StorageList(store) : certificates' = q
            /\ idx' = 1
            /\ mpc' = "sweeping"
            /\ calls' = <<Call("List", "", TRUE, "", NoCert)>>
       ELSE /\ certificates' = <<>>
            /\ idx' = 0
            /\ mpc' = "stopped"
            /\ calls' = <<Call("List", "", FALSE, "", NoCert)>>
  /\ UNCHANGED <<store, status, alerts, missed, qvars, mvars, ctxDone, avars>>

Tick ==
  /\ mpc = "waiting"
  /\ ticks < MaxTicks
  /\ ticks' = ticks + 1
  /\ now' = now + TickDays
  /\ \E ok \in BOOLEAN :
       IF ok
       THEN /\ \E q \in StorageList(store) : certificates' = q
            /\ idx' = 1
            /\ mpc' = "sweeping"
            /\ calls' = <<Call("List", "", TRUE, "", NoCert)>>
       ELSE /\ certificates' = <<>>
            /\ idx' = 0
            /\ mpc' = "waiting"
            /\ calls' = <<Call("List", "", FALSE, "", NoCert)>>
  /\ UNCHANGED <<store, status, alerts, missed, qvars, mvars, ctxDone, avars>>

\* checkAndRenewCertificates: time.Until(cert.Expiry) <= 30*24*time.Hour.
IsDueMutant(cert, t) == cert.Expiry - t < RenewalWindowDays

IsDueSkipMissedMutant(cert, t) ==
  cert.Expiry - t <= RenewalWindowDays /\ cert.Domain \notin missed

IsDue(cert, t) == cert.Expiry - t <= RenewalWindowDays

\* checkAndRenewCertificates: the test on the next certificate of the range
\* loop, time.Until(cert.Expiry) <= 30 days; a due certificate enters
\* renewCertificate.
SweepCheck ==
  /\ mpc = "sweeping"
  /\ idx <= Len(certificates)
  /\ IF IsDue(certificates[idx], now)
     THEN mpc' = "renewing" /\ idx' = idx
     ELSE mpc' = mpc /\ idx' = idx + 1
  /\ UNCHANGED <<store, now, certificates, calls, ticks, status, alerts, missed, qvars, mvars, ctxDone, avars>>

\* checkAndRenewCertificates: renewCertificate for the due certificate and the
\* fallback, run inline by the monitor goroutine.
Renew ==
  /\ mpc = "renewing"
  /\ \E fail \in FailPoints, life \in RenewedLifetimes, tempOK \in BOOLEAN :
       LET r == renewOrFallback(store, certificates[idx].Domain, fail, life, tempOK, now)
       IN /\ store' = r.store
          /\ calls' = calls \o r.calls
          /\ alerts' = alerts \cup r.alerts
          /\ missed' = IF renewCertificate(store, certificates[idx].Domain, fail, life, now).err
                       THEN missed \cup {certificates[idx].Domain}
                       ELSE missed \ {certificates[idx].Domain}
  /\ idx' = idx + 1
  /\ mpc' = "sweeping"
  /\ UNCHANGED <<now, certificates, ticks, status, qvars, mvars, ctxDone, avars>>

\* renewCertificate: a call on a collaborator does not return.  The calls are
\* made with the monitor's context, which carries no deadline, from the
\* monitor goroutine itself.
RenewHang ==
  /\ mpc = "renewing"
  /\ mpc' = "hung"
  /\ UNCHANGED <<store, now, certificates, idx, calls, ticks, status, alerts, missed, qvars, mvars, ctxDone, avars>>

\* checkAndRenewCertificates returns nil after the loop.
SweepReturn ==
  /\ mpc = "sweeping"
  /\ idx > Len(certificates)
  /\ mpc' = "waiting"
  /\ certificates' = <<>>
  /\ idx' = 0
  /\ UNCHANGED <<store, now, calls, ticks, status, alerts, missed, qvars, mvars, ctxDone, avars>>

\* MonitorCertificates: the select takes `<-ctx.Done()` and returns ctx.Err().
MonitorStop ==
  /\ mpc = "waiting"
  /\ ctxDone
  /\ mpc' = "stopped"
  /\ UNCHANGED <<store, now, certificates, idx, calls, ticks, status, alerts, missed, qvars, mvars, ctxDone, avars>>

\* Validator.CheckExpiration: expiry - now, possibly negative.
CheckExpirationMutant(cert, t) ==
  IF cert.Expiry - t < 0 THEN 0 ELSE cert.Expiry - t

CheckExpiration(cert, t) == cert.Expiry - t

\* determineStatus: the status string for a time until expiry.
determineStatusMutant(timeUntilExpiry) ==
  IF timeUntilExpiry <= 0 THEN "expired"
  ELSE IF timeUntilExpiry < ExpiringDays THEN "expiring"
  ELSE IF timeUntilExpiry <= RenewalDueDays THEN "renewal_due"
  ELSE "valid"

determineStatus(timeUntilExpiry) ==
  IF timeUntilExpiry <= 0 THEN "expired"
  ELSE IF timeUntilExpiry <= ExpiringDays THEN "expiring"
  ELSE IF timeUntilExpiry <= RenewalDueDays THEN "renewal_due"
  ELSE "valid"

\* The (nil, err) result of GetCertificateStatus.
StatusError(e) ==
  [err |-> e, Domain |-> "", Type |-> "", Expiry |-> 0, TimeUntilExpiry |-> 0,
   Status |-> ""]

\* Storage.Retrieve: the records stored for the domain.
StorageRetrieve(st, domain) == {c \in st : c.Domain = domain}

\* GetCertificateStatus: Retrieve, CheckExpiration, determineStatus.  Retrieve
\* fails when fail names it or the domain has no record, CheckExpiration when
\* fail names it.
GetCertificateStatusMutant(st, domain, t, fail) ==
  LET found == {certificates[i] : i \in {j \in 1..Len(certificates) : certificates[j].Domain = domain}}
  IN IF fail = "retrieve" \/ found = {} THEN StatusError("retrieve")
     ELSE IF fail = "check" THEN StatusError("check")
     ELSE LET cert == CHOOSE c \in found : TRUE
              timeUntilExpiry == CheckExpiration(cert, t)
          IN [err |-> "nil", Domain |-> domain, Type |-> cert.Type,
              Expiry |-> cert.Expiry, TimeUntilExpiry |-> timeUntilExpiry,
              Status |-> determineStatus(timeUntilExpiry)]

GetCertificateStatusPartialMutant(st, domain, t, fail) ==
  LET found == StorageRetrieve(st, domain)
  IN IF fail = "retrieve" \/ found = {} THEN StatusError("retrieve")
     ELSE LET cert == CHOOSE c \in found : TRUE
              timeUntilExpiry == CheckExpiration(cert, t)
          IN [err |-> IF fail = "check" THEN "check" ELSE "nil",
              Domain |-> domain, Type |-> cert.Type,
              Expiry |-> cert.Expiry, TimeUntilExpiry |-> timeUntilExpiry,
              Status |-> determineStatus(timeUntilExpiry)]

GetCertificateStatusResult(st, domain, t, fail) ==
  LET found == StorageRetrieve(st, domain)
  IN IF fail = "retrieve" \/ found = {} THEN StatusError("retrieve")
     ELSE IF fail = "check" THEN StatusError("check")
     ELSE LET cert == CHOOSE c \in found : TRUE
              timeUntilExpiry == CheckExpiration(cert, t)
          IN [err |-> "nil", Domain |-> domain, Type |-> cert.Type,
              Expiry |-> cert.Expiry, TimeUntilExpiry |-> timeUntilExpiry,
              Status |-> determineStatus(timeUntilExpiry)]

\* GetCertificateStatus(ctx, domain), called from any goroutine at any time.
GetCertificateStatus ==
  /\ \E domain \in Domains, fail \in {"retrieve", "check", "none"} :
       status' = GetCertificateStatusResult(store, domain, now, fail)
  /\ UNCHANGED <<store, now, mpc, certificates, idx, calls, ticks, alerts, missed, qvars, mvars, ctxDone, avars>>

\* Stores the manager can start with: at most one record per domain.
InitStores ==
  {{Cert(d, CertificateTypeProduction, f[d]) : d \in D} :
     D \in SUBSET Domains, f \in [Domains -> InitExpiries]}

CertInit ==
  /\ store \in InitStores
  /\ now = 0
  /\ mpc = "waiting"
  /\ certificates = <<>>
  /\ idx = 0
  /\ calls = <<>>
  /\ ticks = 0
  /\ status = StatusError("none")
  /\ alerts = {}
  /\ missed = {}

\* ------------------------------------------------------------------ main
\* Clock steps the grace period of main() lasts (30 seconds; scaled down).
GraceSteps == 2

\* The jobs submitted to the queue service of the process in the model.
MainJobInputs == {<<JobTypeLogProcessing, 1000, 0, 1>>}

\* The process runs until main() returns or log.Fatalf exits it.
Alive == proc \in {"running", "draining"}

\* startGRPCServer: net.Listen; on an error the goroutine's log.Fatalf exits
\* the process, otherwise Service.Serve starts the server and waits for the
\* context.
GRPCListen ==
  /\ Alive
  /\ gpc = "init"
  /\ \E ok \in BOOLEAN :
       IF ok
       THEN gpc' = "serving" /\ proc' = proc
       ELSE gpc' = "failed" /\ proc' = "fatal"
  /\ UNCHANGED <<elapsed, hpc, qvars, cvars, ctxDone, avars>>

\* grpc Service.Serve: <-ctx.Done(), GracefulStop, return nil.
GRPCReturn ==
  /\ Alive
  /\ gpc = "serving"
  /\ ctxDone
  /\ gpc' = "returned"
  /\ UNCHANGED <<proc, elapsed, hpc, qvars, cvars, ctxDone, avars>>

\* health Service.Serve: starts the server (an error of ListenAndServe is
\* dropped) and waits for the context.
HealthServe ==
  /\ Alive
  /\ hpc = "init"
  /\ hpc' = "serving"
  /\ UNCHANGED <<proc, elapsed, gpc, qvars, cvars, ctxDone, avars>>

\* health Service.Serve: <-ctx.Done(), then returns what server.Shutdown
\* returns; on an error the goroutine's log.Fatalf exits the process.
HealthReturn ==
  /\ Alive
  /\ hpc = "serving"
  /\ ctxDone
  /\ \E ok \in BOOLEAN :
       IF ok
       THEN hpc' = "returned" /\ proc' = proc
       ELSE hpc' = "failed" /\ proc' = "fatal"
  /\ UNCHANGED <<elapsed, gpc, qvars, cvars, ctxDone, avars>>

\* main(): a signal arrives on quit; shutdownCtx is created with the grace
\* period and cancel() cancels the main context.
Shutdown ==
  /\ proc = "running"
  /\ proc' = "draining"
  /\ elapsed' = 0
  /\ ctxDone' = TRUE
  /\ UNCHANGED <<gpc, hpc, qvars, cvars, avars>>

\* Time passes while main() waits on shutdownCtx.Done(); the context's timer
\* fires when the grace period is over.
GraceTick ==
  /\ proc = "draining"
  /\ elapsed < GraceSteps
  /\ elapsed' = elapsed + 1
  /\ UNCHANGED <<proc, gpc, hpc, qvars, cvars, ctxDone, avars>>

\* main(): <-shutdownCtx.Done() yields at the end of the grace period and
\* main returns, which ends the process and every goroutine with it.
MainReturnMutant ==
  /\ proc = "draining"
  /\ elapsed = GraceSteps
  /\ spc = "returned"
  /\ proc' = "stopped"
  /\ UNCHANGED <<elapsed, gpc, hpc, qvars, cvars, ctxDone, avars>>

MainReturn ==
  /\ proc = "draining"
  /\ elapsed = GraceSteps
  /\ proc' = "stopped"
  /\ UNCHANGED <<elapsed, gpc, hpc, qvars, cvars, ctxDone, avars>>

MainInit ==
  /\ proc = "running"
  /\ elapsed = 0
  /\ gpc = "init"
  /\ hpc = "init"

\* ------------------------------------------------- configuration manager
ConfigurationTypeWAF == "waf"
ConfigurationTypeRouting == "routing"

\* The rule lists and routing configurations the updates are called with.
ConfigInputs == {"x", "y"}

\* The []ValidationError a validator returns.
ValidationErrorLists == {<<>>, <<"e1">>, <<"e1", "e2">>}

\* json.Marshal of an input.
Marshal(input) == <<"json", input>>

\* A call on a collaborator of the configuration manager.
CCall(op, ok, errors, data) ==
  [op |-> op, ok |-> ok, errors |-> errors, data |-> data]

\* NewValidationError: returns nil whatever the errors are.
NewValidationError(errors) == "nil"

\* The body UpdateWAFRules and UpdateRoutingConfig share: validation (unless
\* skipped), json.Marshal, Store, Deploy.  Each failure returns at once.
UpdateResultDeployFirstMutant(type, input, validate, errors, marshalOK, storeOK, deployOK, st, dep) ==
  LET config == [Type |-> type, Data |-> Marshal(input), Active |-> TRUE]
      pre == IF validate THEN <<CCall("Validate", Len(errors) = 0, errors, input)>> ELSE <<>>
      cStore(ok) == CCall("Store", ok, <<>>, config.Data)
      cDeploy(ok) == CCall("Deploy", ok, <<>>, input)
  IN IF validate /\ Len(errors) > 0
     THEN [err |-> NewValidationError(errors), configs |-> st, deployments |-> dep,
           calls |-> pre]
     ELSE IF ~marshalOK
     THEN [err |-> "marshal", configs |-> st, deployments |-> dep, calls |-> pre]
     ELSE IF ~deployOK
     THEN [err |-> "deploy", configs |-> st, deployments |-> dep,
           calls |-> pre \o <<cDeploy(FALSE)>>]
     ELSE [err |-> IF storeOK THEN "nil" ELSE "store",
           configs |-> IF storeOK THEN Append(st, config) ELSE st,
           deployments |-> dep \cup {[Type |-> type, Input |-> input]},
           calls |-> pre \o <<cDeploy(TRUE), cStore(storeOK)>>]

UpdateResult(type, input, validate, errors, marshalOK, storeOK, deployOK, st, dep) ==
  LET config == [Type |-> type, Data |-> Marshal(input), Active |-> TRUE]
      pre == IF validate THEN <<CCall("Validate", Len(errors) = 0, errors, input)>> ELSE <<>>
      cStore(ok) == CCall("Store", ok, <<>>, config.Data)
      cDeploy(ok) == CCall("Deploy", ok, <<>>, input)
  IN IF validate /\ Len(errors) > 0
     THEN [err |-> NewValidationError(errors), configs |-> st, deployments |-> dep,
           calls |-> pre]
     ELSE IF ~marshalOK
     THEN [err |-> "marshal", configs |-> st, deployments |-> dep, calls |-> pre]
     ELSE IF ~storeOK
     THEN [err |-> "store", configs |-> st, deployments |-> dep,
           calls |-> pre \o <<cStore(FALSE)>>]
     ELSE [err |-> IF deployOK THEN "nil" ELSE "deploy",
           configs |-> Append(st, config),
           deployments |-> IF deployOK
                           THEN dep \cup {[Type |-> type, Input |-> input]}
                           ELSE dep,
           calls |-> pre \o <<cStore(TRUE), cDeploy(deployOK)>>]

\* UpdateWAFRules(ctx, rules, emergencyDeployment).
UpdateWAFRules ==
  /\ Len(configs) < MaxConfigs
  /\ \E rules \in ConfigInputs, emergencyDeployment \in BOOLEAN,
        errors \in ValidationErrorLists, marshalOK, storeOK, deployOK \in BOOLEAN :
       LET r == UpdateResult(ConfigurationTypeWAF, rules, ~emergencyDeployment, errors,
                             marshalOK, storeOK, deployOK, configs, deployments)
       IN /\ configs' = r.configs
          /\ deployments' = r.deployments
          /\ ccalls' = r.calls
          /\ cerr' = r.err
          /\ creq' = [op |-> "UpdateWAFRules", emergency |-> emergencyDeployment]
  /\ UNCHANGED <<pending, applied, mcalls, merr, qvars, cvars, mvars, ctxDone>>

\* UpdateRoutingConfig(ctx, routingConfig).
UpdateRoutingConfig ==
  /\ Len(configs) < MaxConfigs
  /\ \E routingConfig \in ConfigInputs,
        errors \in ValidationErrorLists, marshalOK, storeOK, deployOK \in BOOLEAN :
       LET r == UpdateResult(ConfigurationTypeRouting, routingConfig, TRUE, errors,
                             marshalOK, storeOK, deployOK, configs, deployments)
       IN /\ configs' = r.configs
          /\ deployments' = r.deployments
          /\ ccalls' = r.calls
          /\ cerr' = r.err
          /\ creq' = [op |-> "UpdateRoutingConfig", emergency |-> FALSE]
  /\ UNCHANGED <<pending, applied, mcalls, merr, qvars, cvars, mvars, ctxDone>>

ConfigInit ==
  /\ configs = <<>>
  /\ deployments = {}
  /\ ccalls = <<>>
  /\ cerr = "nil"
  /\ creq = [op |-> "none", emergency |-> FALSE]

\* ------------------------------------------------------ database manager
Migrations == 1..MaxMigrations

\* The lists GetPendingMigrations can return: migrations in any order, none
\* twice.
PendingLists ==
  {q \in UNION {[1..n -> Migrations] : n \in 0..MaxMigrations} :
     \A i, j \in 1..Len(q) : i # j => q[i] # q[j]}

\* A call on the Migrator.
MCall(op, migration, ok) == [op |-> op, migration |-> migration, ok |-> ok]

\* The range loop of ApplyMigrations from position i: ApplyMigration for each
\* migration in turn, returning at the first error (failAt, 0 for none).
RECURSIVE ApplyLoopContinueMutant(_, _, _, _)
ApplyLoopContinueMutant(migrations, i, failAt, acc) ==
  IF i > Len(migrations) THEN acc
  ELSE IF i = failAt
  THEN ApplyLoopContinueMutant(migrations, i + 1, failAt,
         [acc EXCEPT !.err = "apply",
                     !.calls = Append(@, MCall("ApplyMigration", migrations[i], FALSE))])
  ELSE ApplyLoopContinueMutant(migrations, i + 1, failAt,
         [acc EXCEPT !.applied = Append(@, migrations[i]),
                     !.calls = Append(@, MCall("ApplyMigration", migrations[i], TRUE))])

RECURSIVE ApplyLoop(_, _, _, _)
ApplyLoop(migrations, i, failAt, acc) ==
  IF i > Len(migrations) THEN acc
  ELSE IF i = failAt
  THEN [acc EXCEPT !.err = "apply",
                   !.calls = Append(@, MCall("ApplyMigration", migrations[i], FALSE))]
  ELSE ApplyLoop(migrations, i + 1, failAt,
         [acc EXCEPT !.applied = Append(@, migrations[i]),
                     !.calls = Append(@, MCall("ApplyMigration", migrations[i], TRUE))])

\* The migrations of a list that are not in done, in the list's order.
RECURSIVE Remaining(_, _)
Remaining(migrations, done) ==
  IF migrations = <<>> THEN <<>>
  ELSE IF \E k \in DOMAIN done : done[k] = Head(migrations)
  THEN Remaining(Tail(migrations), done)
  ELSE <<Head(migrations)>> \o Remaining(Tail(migrations), done)

\* ApplyMigrations(ctx).
ApplyMigrations ==
  /\ \E getOK \in BOOLEAN, failAt \in 0..Len(pending) :
       IF ~getOK
       THEN /\ mcalls' = <<MCall("GetPendingMigrations", 0, FALSE)>>
            /\ merr' = "get"
            /\ UNCHANGED <<pending, applied>>
       ELSE LET r == ApplyLoop(pending, 1, failAt,
                       [err |-> "nil", applied |-> applied,
                        calls |-> <<MCall("GetPendingMigrations", 0, TRUE)>>])
            IN /\ mcalls' = r.calls
               /\ merr' = r.err
               /\ applied' = r.applied
               /\ pending' = Remaining(pending, r.applied)
  /\ UNCHANGED <<configs, deployments, ccalls, cerr, creq, qvars, cvars, mvars, ctxDone>>

MigrationIdle ==
  /\ applied = <<>>
  /\ mcalls = <<>>
  /\ merr = "nil"

MigrationInit ==
  /\ pending = <<>>
  /\ MigrationIdle

\* ------------------------------------------------------- specifications
QueueNext ==
  \/ AddJob
  \/ Start
  \/ StartReturn
  \/ \E w \in Workers : WorkerReceive(w)
  \/ \E w \in Workers : WorkerProcess(w)
  \/ \E w \in Workers : WorkerStop(w)
  \/ Cancel

\* The queue service, next to a manager whose store is empty.
QueueSpecInit ==
  /\ QueueInit /\ CertInit /\ MainInit /\ ConfigInit /\ MigrationInit
  /\ store = {} /\ ctxDone = FALSE

QueueSpec == QueueSpecInit /\ [][QueueNext]_vars

\* The queue service under the scheduling the runtime gives: a handler that
\* was called returns (processJob's handlers terminate), a select whose
\* ctx.Done() case is ready again and again takes it eventually (select
\* chooses among ready cases at random), and wg.Wait() returns once it can.
\* The conditions are stated for the workers together, which every worker
\* being scheduled fairly implies.
FairQueueSpec ==
  /\ QueueSpec
  /\ WF_vars(\E w \in Workers : WorkerProcess(w))
  /\ SF_vars(\E w \in Workers : WorkerStop(w))
  /\ WF_vars(StartReturn)

\* The queue service fed with urgent certificate jobs and routine maintenance
\* jobs.
MixedJobInputs ==
  {<<JobTypeCertificateRenewal, 1, 0, 1>>, <<JobTypeLogProcessing, 1000, 0, 1>>}

MixedNext ==
  \/ AddJobFrom(MixedJobInputs)
  \/ Start
  \/ StartReturn
  \/ \E w \in Workers : WorkerReceive(w)
  \/ \E w \in Workers : WorkerProcess(w)
  \/ \E w \in Workers : WorkerStop(w)
  \/ Cancel

\* The queue service while it runs: Start is called (main starts it in a
\* goroutine), a worker blocked in its select receives when a job is in the
\* channel, and a handler that was called returns.
FairWorkersSpec ==
  /\ QueueSpecInit
  /\ [][MixedNext]_vars
  /\ WF_vars(Start)
  /\ WF_vars(\E w \in Workers : WorkerReceive(w))
  /\ WF_vars(\E w \in Workers : WorkerProcess(w))

CertNext ==
  \/ Tick
  \/ SweepCheck
  \/ Renew
  \/ SweepReturn
  \/ MonitorStop
  \/ Cancel

\* The certificate manager's monitor, next to a queue nobody submits to.
CertSpecInit ==
  /\ QueueInit /\ CertInit /\ MainInit /\ ConfigInit /\ MigrationInit
  /\ ctxDone = FALSE

CertSpec == CertSpecInit /\ [][CertNext]_vars

\* The monitor with collaborators whose calls may hang, under a scheduling
\* that runs the monitor goroutine: the range loop goes on, a call that
\* returns is followed by the rest of the loop body, and the sweep returns.
HangNext ==
  \/ Tick
  \/ SweepCheck
  \/ Renew
  \/ RenewHang
  \/ SweepReturn
  \/ MonitorStop
  \/ Cancel

FairCertSpec ==
  /\ CertSpecInit
  /\ [][HangNext]_vars
  /\ WF_vars(SweepCheck)
  /\ WF_vars(Renew)
  /\ WF_vars(SweepReturn)

\* The certificate manager with callers of GetCertificateStatus running beside
\* the monitor, over stores of at most one record.
StatusNext ==
  \/ Tick
  \/ SweepCheck
  \/ Renew
  \/ SweepReturn
  \/ MonitorStop
  \/ GetCertificateStatus
  \/ Cancel

StatusSpecInit == CertSpecInit /\ Cardinality(store) <= 1

StatusSpec == StatusSpecInit /\ [][StatusNext]_vars

\* The process: main() with the goroutines it starts.  The goroutines run
\* only while the process is alive.
MainNext ==
  \/ GRPCListen
  \/ GRPCReturn
  \/ HealthServe
  \/ HealthReturn
  \/ Shutdown
  \/ GraceTick
  \/ MainReturn
  \/ Alive /\ AddJobFrom(MainJobInputs)
  \/ Alive /\ Start
  \/ Alive /\ StartReturn
  \/ Alive /\ \E w \in Workers : WorkerReceive(w)
  \/ Alive /\ \E w \in Workers : WorkerProcess(w)
  \/ Alive /\ \E w \in Workers : WorkerStop(w)

MainSpecInit == QueueSpecInit

MainSpec == MainSpecInit /\ [][MainNext]_vars

\* The process under a clock that advances and a main goroutine that is
\* scheduled: the timer of shutdownCtx fires and main() then returns.
FairMainSpec ==
  /\ MainSpec
  /\ WF_vars(GraceTick)
  /\ WF_vars(MainReturn)

\* The configuration manager under any sequence of update calls.
ConfigNext ==
  \/ UpdateWAFRules
  \/ UpdateRoutingConfig

ConfigSpecInit == QueueSpecInit

ConfigSpec == ConfigSpecInit /\ [][ConfigNext]_vars

\* The database manager under any sequence of ApplyMigrations calls, from any
\* list of pending migrations.
MigrationNext == ApplyMigrations

MigrationSpecInit ==
  /\ QueueInit /\ CertInit /\ MainInit /\ ConfigInit /\ MigrationIdle
  /\ store = {} /\ ctxDone = FALSE
  /\ pending \in PendingLists

MigrationSpec == MigrationSpecInit /\ [][MigrationNext]_vars

\* ------------------------------------------------------------ properties
\* A worker w takes a job in this step.
Takes(w) == wpc[w] = "idle" /\ wpc'[w] = "processing"

\* A worker w finishes processJob in this step.
Finishes(w) == wpc[w] = "processing" /\ wpc'[w] = "idle"

\* C1: submitting never blocks: AddJob can always be called; when the buffer
\* holds QueueCap jobs a call returns ErrQueueFull and leaves the queue as it
\* was, a job is accepted only when there is room, and the number of pending
\* jobs never exceeds QueueCap.
C1_SubmitNeverBlocks ==
  /\ [](Len(jobs) <= QueueCap)
  /\ [](nextID <= MaxJobs => ENABLED AddJob)
  /\ [][/\ (Len(jobs) = QueueCap /\ (addErr' # addErr \/ nextID' # nextID))
             => (jobs' = jobs /\ addErr' = "ErrQueueFull" /\ nextID' = nextID)
        /\ (addErr' = "ErrQueueFull" /\ addErr # "ErrQueueFull")
             => (jobs' = jobs /\ Len(jobs) = QueueCap)]_vars

\* C1 witness: a call was rejected with ErrQueueFull while the buffer is full.
C1_Witness == addErr = "ErrQueueFull" /\ Len(jobs) = QueueCap

\* C2: whenever a worker takes a job, its priority value is the lowest among
\* all the jobs that were pending.
C2_LowestPriorityFirst ==
  [][\A w \in Workers : Takes(w) =>
       \A i \in 1..Len(jobs) : cur'[w].Priority <= jobs[i].Priority]_vars

\* C3: among pending jobs of equal priority the one accepted first is taken
\* first: when a worker takes a job, no job of the same priority that was
\* accepted earlier is left pending.
C3_EqualPriorityFIFO ==
  [][\A w \in Workers : Takes(w) =>
       \A i \in 1..Len(jobs') :
         jobs'[i].Priority = cur'[w].Priority => jobs'[i].ID > cur'[w].ID]_vars

\* C3 witness: a worker holds a job while a job of the same priority, accepted
\* later, is pending.
C3_Witness ==
  \E w \in Workers :
    /\ wpc[w] = "processing"
    /\ \E i \in 1..Len(jobs) :
         jobs[i].Priority = cur[w].Priority /\ jobs[i].ID > cur[w].ID

\* A renewal attempt for domain d is in flight in worker w.
WorkerRenewing(w, d) ==
  /\ wpc[w] = "processing"
  /\ cur[w].Type = JobTypeCertificateRenewal
  /\ cur[w].Domain = d

\* A renewal attempt for domain d is in flight in the monitor goroutine.
MonitorRenewing(d) == mpc = "renewing" /\ certificates[idx].Domain = d

\* C4: no two renewal attempts for the same domain are in flight at the same
\* time, be they renewal jobs in workers or renewCertificate in the monitor.
C4_RenewalsSerializedPerDomain ==
  \A d \in Domains :
    /\ \A w1, w2 \in Workers :
         (WorkerRenewing(w1, d) /\ WorkerRenewing(w2, d)) => w1 = w2
    /\ \A w \in Workers : ~(WorkerRenewing(w, d) /\ MonitorRenewing(d))

FallibleRenewalCalls == {"RenewCertificate", "ValidateCertificate", "Store"}

\* C5: when RenewCertificate, the validation or Store fails for a due domain,
\* the same sweep hands a temporary certificate for that domain to
\* DeployTemporary, with a non-empty reason.
C5_FallbackOnFailure ==
  \A i \in DOMAIN calls :
    (calls[i].op \in FallibleRenewalCalls /\ ~calls[i].ok) =>
      /\ i < Len(calls)
      /\ calls[i + 1].op = "DeployTemporary"
      /\ calls[i + 1].domain = calls[i].domain
      /\ calls[i + 1].cert.Domain = calls[i].domain
      /\ calls[i + 1].cert.Type = CertificateTypeTemporary
      /\ calls[i + 1].reason # ""

\* C5 witness: a Store call failed in a sweep and DeployTemporary followed.
C5_Witness ==
  \E i \in DOMAIN calls :
    /\ calls[i].op = "Store" /\ ~calls[i].ok
    /\ i < Len(calls) /\ calls[i + 1].op = "DeployTemporary"

\* The call at position i of log is a successful Store that directly follows
\* a successful RenewCertificate and a successful validation for its domain.
StoreAfterValidation(log, i) ==
  /\ i >= 3
  /\ log[i].op = "Store"
  /\ log[i - 1].op = "ValidateCertificate" /\ log[i - 1].ok
  /\ log[i - 1].domain = log[i].domain /\ log[i - 1].cert = log[i].cert
  /\ log[i - 2].op = "RenewCertificate" /\ log[i - 2].ok
  /\ log[i - 2].domain = log[i].domain

\* C6: Store is called only after RenewCertificate succeeded and the
\* validation accepted the new certificate, and the store changes only in a
\* step that makes such a successful Store call, to the domain's new record.
C6_StoreOnlyAfterValidation ==
  /\ [](\A i \in DOMAIN calls : calls[i].op = "Store" => StoreAfterValidation(calls, i))
  /\ [][store' # store =>
          \E i \in DOMAIN calls' :
            /\ i > Len(calls)
            /\ StoreAfterValidation(calls', i) /\ calls'[i].ok
            /\ store' = StorageStore(store, calls'[i].cert)]_vars

\* C6 witness: a validation rejected a renewed certificate and the store does
\* not hold it; in the same sweep another renewal was stored.
C6_Witness ==
  /\ \E i \in DOMAIN calls :
       calls[i].op = "ValidateCertificate" /\ ~calls[i].ok /\ calls[i].cert \notin store
  /\ \E i \in DOMAIN calls :
       calls[i].op = "Store" /\ calls[i].ok /\ calls[i].cert \in store

\* C7: the store holds at most one certificate that is not temporary for each
\* domain.
C7_OneActiveCertificatePerDomain ==
  \A d \in Domains :
    Cardinality({c \in store : c.Domain = d /\ c.Type # CertificateTypeTemporary}) <= 1

\* C7 witness: a renewal stored a new certificate for a domain that had one,
\* and the new one is the domain's only record.
C7_Witness ==
  \E i \in DOMAIN calls :
    /\ calls[i].op = "Store" /\ calls[i].ok
    /\ {c \in store : c.Domain = calls[i].domain} = {calls[i].cert}

RenewalLogic == {"RenewCertificate", "Store", "Deploy", "DeployTemporary"}

\* C8: RenewCertificate, Store, Deploy and DeployTemporary are never executed
\* by the monitor's timer-driven task, only by a queue worker.
C8_SweepOnlyProducesJobs ==
  /\ mpc # "renewing"
  /\ \A i \in DOMAIN calls : calls[i].op \in RenewalLogic => calls[i].task = "worker"

\* C9: when a handler fails and the job's Retry is below MaxRetry, the job is
\* re-submitted with Retry incremented by one and its priority unchanged.
C9_RetryResubmits ==
  [][\A w \in Workers :
       (Finishes(w) /\ lastDone' = "failed" /\ cur[w].Retry < cur[w].MaxRetry) =>
         \E i \in 1..Len(jobs') :
           /\ jobs'[i].ID = cur[w].ID
           /\ jobs'[i].Retry = cur[w].Retry + 1
           /\ jobs'[i].Priority = cur[w].Priority]_vars

\* C10: every job, pending or in a worker, has Retry <= MaxRetry, and a job
\* whose handler failed is not sent back to the queue once Retry has reached
\* MaxRetry.
C10_RetryWithinMax ==
  /\ [](\A i \in 1..Len(jobs) : jobs[i].Retry <= jobs[i].MaxRetry)
  /\ [](\A w \in Workers : wpc[w] = "processing" => cur[w].Retry <= cur[w].MaxRetry)
  /\ [][\A w \in Workers :
          (Finishes(w) /\ cur[w].Retry >= cur[w].MaxRetry) =>
            \A i \in 1..Len(jobs') : jobs'[i].ID # cur[w].ID]_vars

\* IDs of the jobs pending in the channel.
PendingIDs == {jobs[i].ID : i \in 1..Len(jobs)}

\* IDs of the jobs workers are processing.
InProgressIDs == {cur[w].ID : w \in {v \in Workers : wpc[v] = "processing"}}

\* C11: every accepted job is held by exactly one of: the channel, one worker,
\* the finished jobs.  No two workers process the same job, no job is taken
\* again after a worker took it, and no accepted job is lost.
C11_ExactlyOneWorkerPerJob ==
  /\ Cardinality(PendingIDs) = Len(jobs)
  /\ \A w1, w2 \in Workers :
       (wpc[w1] = "processing" /\ wpc[w2] = "processing" /\ cur[w1].ID = cur[w2].ID)
         => w1 = w2
  /\ PendingIDs \cap InProgressIDs = {}
  /\ PendingIDs \cap finished = {}
  /\ InProgressIDs \cap finished = {}
  /\ PendingIDs \cup InProgressIDs \cup finished = 1..(nextID - 1)

\* C11 witness: two workers process jobs at the same time after a job has
\* finished.
C11_Witness ==
  /\ \A w \in Workers : w <= 2 => wpc[w] = "processing"
  /\ finished # {}

\* C12: once the context is cancelled no AddJob call is accepted and the
\* number of pending jobs does not grow.
C12_NoAdmissionAfterCancel ==
  [][ctxDone => (nextID' = nextID /\ Len(jobs') <= Len(jobs))]_vars

\* C13: a worker that is processing a job leaves that position only by
\* finishing the job; a worker exits only from its select, after the
\* cancellation; Start returns only when every worker has exited; and once the
\* context is cancelled a Start that is waiting eventually returns.
C13_WorkersDrainAndStartReturns ==
  /\ [][\A w \in Workers :
          /\ wpc[w] = "processing" =>
               \/ wpc'[w] = "processing" /\ cur'[w] = cur[w]
               \/ wpc'[w] = "idle" /\ cur[w].ID \in finished'
          /\ (wpc'[w] = "stopped" /\ wpc[w] # "stopped") =>
               (wpc[w] = "idle" /\ ctxDone)]_vars
  /\ [](spc = "returned" => \A w \in Workers : wpc[w] = "stopped")
  /\ ((ctxDone /\ spc = "waiting") ~> (spc = "returned"))

\* C13 witness: after the cancellation one worker has exited while another is
\* still processing the job it held.
C13_Witness ==
  /\ ctxDone
  /\ \E w \in Workers : wpc[w] = "processing"
  /\ \E w \in Workers : wpc[w] = "stopped"

\* C14: the status returned by GetCertificateStatus is determined by the time
\* until expiry d alone, with inclusive upper bounds: d <= 0 expired,
\* 0 < d <= 7 days expiring, 7 days < d <= 30 days renewal_due, d > 30 days
\* valid.
C14_StatusByTimeUntilExpiry ==
  status.err = "nil" =>
    LET d == status.TimeUntilExpiry
    IN /\ d <= 0 => status.Status = "expired"
       /\ (0 < d /\ d <= 7) => status.Status = "expiring"
       /\ (7 < d /\ d <= 30) => status.Status = "renewal_due"
       /\ d > 30 => status.Status = "valid"

\* C14 witness: a certificate exactly 7 days from expiry was reported expiring.
C14_Witness ==
  status.err = "nil" /\ status.TimeUntilExpiry = 7 /\ status.Status = "expiring"

\* The sweep has passed position i of the listed certificates.
Swept(i) == mpc \in {"sweeping", "renewing"} /\ i \in 1..Len(certificates) /\ i < idx

\* The calls the running sweep made for a domain.
CallsFor(d) == {i \in DOMAIN calls : calls[i].domain = d}

\* C15: a sweep calls RenewCertificate for a listed certificate if and only if
\* its time until expiry is at most 30 days; for a certificate further from
\* expiry it makes no call at all, and every call of the sweep besides List is
\* for a listed certificate within the 30 days.
C15_RenewIffWithinWindow ==
  /\ \A i \in 1..Len(certificates) :
       Swept(i) =>
         LET d == certificates[i].Expiry - now
             c == CallsFor(certificates[i].Domain)
         IN /\ d <= 30 => \E k \in c : calls[k].op = "RenewCertificate"
            /\ d > 30 => c = {}
  /\ mpc = "renewing" => certificates[idx].Expiry - now <= 30
  /\ \A k \in DOMAIN calls :
       (mpc \in {"sweeping", "renewing"} /\ calls[k].op # "List") =>
         \E i \in 1..Len(certificates) :
           /\ certificates[i].Domain = calls[k].domain
           /\ certificates[i].Expiry - now <= 30

\* C15 witness: one sweep renewed a certificate exactly 30 days from expiry and
\* passed over one further from expiry.
C15_Witness ==
  \E i, j \in 1..Len(certificates) :
    /\ Swept(i) /\ certificates[i].Expiry - now = 30
    /\ CallsFor(certificates[i].Domain) # {}
    /\ Swept(j) /\ certificates[j].Expiry - now > 30

\* The class of a listed certificate at the time of the sweep.
ClassOf(cert) == determineStatus(cert.Expiry - now)

\* More urgent classes have lower ranks.
ClassRank(class) ==
  CASE class = "expired" -> 1
    [] class = "expiring" -> 2
    [] class = "renewal_due" -> 3
    [] OTHER -> 4

\* The positions of the renewal jobs for domain d in the queue.
RenewalJobsFor(d) ==
  {k \in 1..Len(jobs) : jobs[k].Type = JobTypeCertificateRenewal /\ jobs[k].Domain = d}

\* C16: for every certificate a sweep found due, a renewal job for its domain
\* has been dispatched, and a job for a more urgent class (expired before
\* expiring before renewal_due) has a strictly smaller priority number.
C16_UrgencyByClass ==
  \A i, j \in 1..Len(certificates) :
    (Swept(i) /\ Swept(j) /\ ClassOf(certificates[i]) # "valid"
       /\ ClassOf(certificates[j]) # "valid") =>
      /\ RenewalJobsFor(certificates[i].Domain) # {}
      /\ \A ki \in RenewalJobsFor(certificates[i].Domain),
            kj \in RenewalJobsFor(certificates[j].Domain) :
           ClassRank(ClassOf(certificates[i])) < ClassRank(ClassOf(certificates[j]))
             => jobs[ki].Priority < jobs[kj].Priority

\* C17: whenever DeployTemporary fails for a domain, a fault for that domain
\* has been logged or raised.
C17_TemporaryFailureSurfaced ==
  \A i \in DOMAIN calls :
    (calls[i].op = "DeployTemporary" /\ ~calls[i].ok) => calls[i].domain \in alerts

\* C18: every temporary certificate handed to DeployTemporary has type
\* temporary, is flagged temporary, carries the domain of the stored certificate
\* whose renewal just failed, and expires 14 days after its creation, with
\* ValidityDays = 14.
C18_TemporaryCertificateShape ==
  \A i \in DOMAIN calls :
    calls[i].op = "DeployTemporary" =>
      LET tc == calls[i].cert
      IN /\ tc.Type = CertificateTypeTemporary
         /\ tc.IsTemporary
         /\ tc.Domain = calls[i].domain
         /\ i > 1 /\ ~calls[i - 1].ok /\ calls[i - 1].domain = tc.Domain
         /\ \E c \in store : c.Domain = tc.Domain /\ c.Type = CertificateTypeProduction
         /\ tc.Expiry = tc.Created + 14
         /\ tc.ValidityDays = 14

\* C18 witness: a temporary certificate was issued in the second sweep, one day
\* after the start.
C18_Witness ==
  \E i \in DOMAIN calls :
    /\ calls[i].op = "DeployTemporary" /\ calls[i].ok
    /\ calls[i].cert.Created = 2 /\ calls[i].cert.Expiry = 16

\* The calls appended to the log by the current step.
NewCalls ==
  IF calls' = calls THEN {}
  ELSE {k \in DOMAIN calls' : k > Len(calls) \/ Len(calls') <= Len(calls)}

\* C19: the fallback never deletes or overwrites a stored record: no step
\* removes a domain from the store, nothing calls Delete, no temporary
\* certificate is ever stored, and the store changes only by a successful
\* Store of a renewed certificate, which replaces that domain's record.
C19_FallbackLeavesStore ==
  /\ [](\A c \in store : c.Type # CertificateTypeTemporary)
  /\ [](\A i \in DOMAIN calls : calls[i].op # "Delete")
  /\ [][/\ {c.Domain : c \in store} \subseteq {c.Domain : c \in store'}
        /\ store' # store =>
             \E k \in NewCalls :
               /\ calls'[k].op = "Store" /\ calls'[k].ok
               /\ calls'[k].cert.Type = CertificateTypeProduction
               /\ store' = {c \in store : c.Domain # calls'[k].domain} \cup {calls'[k].cert}]_vars

\* C19 witness: a temporary certificate was deployed for a domain whose
\* renewal failed at the authority and the store still holds the record the
\* sweep listed.
C19_Witness ==
  \E i \in DOMAIN calls, j \in 1..Len(certificates) :
    /\ calls[i].op = "DeployTemporary" /\ calls[i].ok
    /\ i > 1 /\ calls[i - 1].op = "RenewCertificate"
    /\ Swept(j) /\ certificates[j].Domain = calls[i].domain
    /\ certificates[j] \in store

\* C20: GetCertificateStatus reports the type and expiry of the record the
\* store holds for the domain when it is called, and leaves the store as it
\* is.
C20_StatusReadsStore ==
  [][status' # status =>
       /\ store' = store
       /\ status'.err = "nil" =>
            \E c \in store :
              /\ c.Domain = status'.Domain
              /\ c.Type = status'.Type
              /\ c.Expiry = status'.Expiry]_vars

\* C20 witness: in the middle of a sweep GetCertificateStatus reported the
\* certificate that the sweep had just stored, not the one it had listed.
C20_Witness ==
  /\ status.err = "nil"
  /\ mpc = "sweeping"
  /\ \E i \in DOMAIN calls, j \in 1..Len(certificates) :
       /\ calls[i].op = "Store" /\ calls[i].ok
       /\ calls[i].domain = status.Domain
       /\ calls[i].cert.Expiry = status.Expiry
       /\ certificates[j].Domain = status.Domain
       /\ certificates[j].Expiry # status.Expiry

\* C21: a job whose type is none of the seven job types is dropped: no
\* handler is chosen for it, processJob sends nothing back to the channel, the
\* job is finished for good, and the worker is idle again, free to receive
\* the next job.
C21_UnknownTypeDropped ==
  /\ [][\A w \in Workers :
          (Finishes(w) /\ cur[w].Type \notin JobTypes) =>
            /\ Handler(cur[w].Type) = "none"
            /\ lastDone' = "dropped"
            /\ jobs' = jobs
            /\ cur[w].ID \in finished'
            /\ \A v \in Workers : wpc'[v] = "processing" => cur'[v].ID # cur[w].ID
            /\ wpc'[w] = "idle"]_vars
  /\ [](\A w \in Workers :
          (wpc[w] = "idle" /\ jobs # <<>>) => ENABLED WorkerReceive(w))

\* C21 witness: the last job that left processJob was dropped and every worker
\* is processing a job again, the worker that dropped it included.
C21_Witness ==
  /\ lastDone = "dropped"
  /\ \A w \in Workers : wpc[w] = "processing"

\* C22: no job is overtaken by a job accepted after it, whatever their types
\* and priorities, and while the context is not cancelled every pending job is
\* eventually received by a worker.
C22_NoStarvation ==
  /\ [][\A w \in Workers : Takes(w) =>
          \A i \in 1..Len(jobs') : jobs'[i].ID > cur'[w].ID]_vars
  /\ \A id \in 1..MaxJobs :
       (id \in PendingIDs) ~> (id \notin PendingIDs \/ ctxDone)

\* C22 witness: a worker took a maintenance job of priority 1000 while a
\* certificate job of priority 1, accepted later, is pending.
C22_Witness ==
  \E w \in Workers :
    /\ wpc[w] = "processing"
    /\ cur[w].Type = JobTypeLogProcessing /\ cur[w].Priority = 1000
    /\ \E i \in 1..Len(jobs) :
         /\ jobs[i].Type = JobTypeCertificateRenewal /\ jobs[i].Priority = 1
         /\ jobs[i].ID > cur[w].ID

\* The sweep has classified the certificate at position i of the list and,
\* when it is within 30 days of expiry, has entered its renewal.
Reached(i) ==
  /\ i <= Len(certificates)
  /\ \/ idx = i /\ mpc = "renewing"
     \/ idx > i /\ certificates[i].Expiry - now > 30
     \/ idx > i /\ \E k \in DOMAIN calls :
                     calls[k].op = "RenewCertificate" /\ calls[k].domain = certificates[i].Domain

\* C23: in every sweep each listed certificate is classified and, when due,
\* enters its renewal, whatever happens to the renewals of the certificates
\* before it in the list, unless the context is cancelled first.
C23_SweepNotStalled ==
  \A i \in 1..Cardinality(Domains) :
    (mpc \in {"sweeping", "renewing"} /\ idx < i /\ i <= Len(certificates))
      ~> (Reached(i) \/ ctxDone)

\* The RenewCertificate calls the running sweep made for domain d.
RenewCallsFor(d) ==
  {k \in DOMAIN calls : calls[k].op = "RenewCertificate" /\ calls[k].domain = d}

\* C24: within one sweep RenewCertificate is called at most once for a domain,
\* and a failed validation of the renewed certificate is followed directly by
\* DeployTemporary for that domain, with no further RenewCertificate for it.
C24_OncePerDomainPerSweep ==
  /\ \A d \in Domains : Cardinality(RenewCallsFor(d)) <= 1
  /\ \A k \in DOMAIN calls :
       (calls[k].op = "ValidateCertificate" /\ ~calls[k].ok) =>
         /\ k < Len(calls)
         /\ calls[k + 1].op = "DeployTemporary"
         /\ calls[k + 1].domain = calls[k].domain
         /\ \A j \in RenewCallsFor(calls[k].domain) : j < k

\* C24 witness: a sweep over two due certificates renewed both, the validation
\* of one failed and its temporary certificate was deployed.
C24_Witness ==
  /\ \A d \in Domains : Cardinality(RenewCallsFor(d)) = 1
  /\ \E k \in DOMAIN calls :
       /\ calls[k].op = "ValidateCertificate" /\ ~calls[k].ok
       /\ k < Len(calls) /\ calls[k + 1].op = "DeployTemporary"

\* C25: when Deploy fails after the renewed certificate was validated and
\* stored, the renewed certificate stays in the store and the renewal counts
\* as done: no temporary certificate is issued for the domain.
C25_PartialDeployAccepted ==
  \A k \in DOMAIN calls :
    (calls[k].op = "Deploy" /\ ~calls[k].ok) =>
      /\ calls[k].cert \in store
      /\ \A j \in DOMAIN calls :
           ~(j > k /\ calls[j].op = "DeployTemporary" /\ calls[j].domain = calls[k].domain)

\* C26: a domain whose renewal failed is renewed again by the next sweep when
\* its stored certificate is still within 30 days of expiry: the sweep lists
\* the record, finds it due and calls RenewCertificate for it.
C26_MissedRenewalRetried ==
  /\ [][(mpc = "waiting" /\ mpc' = "sweeping") =>
          \A c \in store :
            (c.Domain \in missed /\ c.Expiry - now' <= 30) =>
              \E i \in 1..Len(certificates') : certificates'[i] = c]_vars
  /\ [][(/\ mpc = "sweeping" /\ idx <= Len(certificates)
         /\ (idx' # idx \/ mpc' # mpc)
         /\ certificates[idx].Domain \in missed
         /\ certificates[idx].Expiry - now <= 30) =>
          (mpc' = "renewing" /\ idx' = idx)]_vars
  /\ [][(mpc = "renewing" /\ mpc' = "sweeping") =>
          \E k \in NewCalls :
            /\ calls'[k].op = "RenewCertificate"
            /\ calls'[k].domain = certificates[idx].Domain]_vars

\* C26 witness: the second sweep has entered the renewal of a domain whose
\* renewal failed in the first.
C26_Witness ==
  /\ ticks = 2
  /\ mpc = "renewing"
  /\ certificates[idx].Domain \in missed

\* C27: the process exits only after a shutdown signal: whenever it has
\* exited, be it by main returning or by log.Fatalf, the signal had arrived
\* and the main context had been cancelled.
C27_ExitOnlyOnSignal ==
  proc \in {"stopped", "fatal"} => ctxDone

\* C28: the shutdown signal cancels the main context, and from then on the
\* process stops no later than the end of the grace period: the clock never
\* passes the end of the grace period with the process still draining, at
\* that moment main can return whatever the workers are doing, and the
\* process does stop.
C28_ShutdownBounded ==
  /\ [][(proc = "running" /\ proc' = "draining") => ctxDone']_vars
  /\ [](proc = "draining" => elapsed <= GraceSteps)
  /\ []((proc = "draining" /\ elapsed = GraceSteps) => ENABLED MainReturn)
  /\ (proc = "draining") ~> (proc \in {"stopped", "fatal"})

\* C28 witness: main returned at the end of the grace period while a worker
\* was still processing a job.
C28_Witness ==
  /\ proc = "stopped"
  /\ elapsed = GraceSteps
  /\ \E w \in Workers : wpc[w] = "processing"

\* The workers whose goroutine is running.
LiveWorkers == {w \in Workers : wpc[w] \in {"idle", "processing"}}

C30_NoSweepAfterCancel ==
  /\ [][ctxDone => ticks' = ticks]_vars
  /\ [](mpc = "stopped" => ctxDone)

\* The records the store holds for domain d.
StoredFor(st, d) == {c \in st : c.Domain = d}

\* C31: after the renewal of a due certificate in which the authority returned
\* success, the expiry stored for the domain is strictly greater than the
\* expiry stored before.
C31_RenewedExpiryGreater ==
  [][\A k \in NewCalls :
       (mpc = "renewing" /\ calls'[k].op = "RenewCertificate" /\ calls'[k].ok) =>
         \A old \in StoredFor(store, calls'[k].domain),
            new \in StoredFor(store', calls'[k].domain) :
           new.Expiry > old.Expiry]_vars

\* C31 as amended: after a renewal that got as far as a successful Store the
\* domain's record is the certificate the authority issued, and its expiry is
\* strictly greater than the expiry stored before whenever the issued
\* certificate is valid for more than 30 days.
C31_StoredIsIssued ==
  [][\A k \in NewCalls :
       (mpc = "renewing" /\ calls'[k].op = "Store" /\ calls'[k].ok) =>
         /\ StoredFor(store', calls'[k].domain) = {calls'[k].cert}
         /\ calls'[k].cert.Expiry - now > 30 =>
              \A old \in StoredFor(store, calls'[k].domain) :
                calls'[k].cert.Expiry > old.Expiry]_vars

\* C31 witness: a sweep stored a certificate valid for more than 30 days for
\* a domain it had listed with an earlier expiry.
C31_Witness ==
  \E k \in DOMAIN calls, i \in 1..Len(certificates) :
    /\ calls[k].op = "Store" /\ calls[k].ok
    /\ calls[k].cert.Expiry - now > 30
    /\ calls[k].cert \in store
    /\ Swept(i) /\ certificates[i].Domain = calls[k].domain
    /\ certificates[i].Expiry < calls[k].cert.Expiry

\* GetCertificateStatus returned a status in this step.
Reads == status' # status /\ status'.err = "nil"

\* C32: the time until expiry a status carries is expiry - now at the time of
\* the call, negative once the certificate has expired; a later reading of
\* the same certificate is never greater than the one before and falls by
\* one day with each day that passes.
C32_CheckExpirationIsExpiryMinusNow ==
  /\ [][Reads => status'.TimeUntilExpiry = status'.Expiry - now']_vars
  /\ [][(/\ Reads /\ status.err = "nil"
         /\ status'.Domain = status.Domain
         /\ status'.Type = status.Type
         /\ status'.Expiry = status.Expiry) =>
          status'.TimeUntilExpiry < status.TimeUntilExpiry]_vars
  /\ [](status.err = "nil" =>
          /\ status.Expiry - status.TimeUntilExpiry \in 0..now
          /\ (status.Expiry < now /\ status.Expiry - status.TimeUntilExpiry = now)
               => status.TimeUntilExpiry < 0)

\* C32 witness: a certificate that expired the day before was read at one day
\* and, after two ticks, at minus one day.
C32_Witness ==
  /\ status.err = "nil"
  /\ status.Expiry = 1
  /\ now = 2
  /\ status.TimeUntilExpiry = -1

\* C33: once the context is cancelled no idle worker takes a job from the
\* channel, whatever is pending in it.
C33_NoNewJobAfterCancel ==
  [][ctxDone => \A w \in Workers : ~(wpc[w] = "idle" /\ wpc'[w] = "processing")]_vars

\* The sweep got a List error and made no other call.
ListFailed == calls = <<Call("List", "", FALSE, "", NoCert)>>

\* C34: when Deploy fails after the renewed certificate was validated and
\* stored, the next call of the sweep is DeployTemporary for the domain with
\* reason "renewal_failed", and the store holds the renewed production
\* certificate for the domain, not the temporary one.
C34_DeployErrorFallsBack ==
  [][\A k \in NewCalls :
       (mpc = "renewing" /\ calls'[k].op = "Deploy" /\ ~calls'[k].ok) =>
         /\ k - 3 \in NewCalls
         /\ calls'[k - 2].op = "ValidateCertificate" /\ calls'[k - 2].ok
         /\ calls'[k - 1].op = "Store" /\ calls'[k - 1].ok
         /\ calls'[k - 1].cert = calls'[k].cert
         /\ k + 1 \in NewCalls
         /\ calls'[k + 1].op = "DeployTemporary"
         /\ calls'[k + 1].domain = calls'[k].domain
         /\ calls'[k + 1].reason = "renewal_failed"
         /\ calls'[k + 1].cert.IsTemporary
         /\ StoredFor(store', calls'[k].domain) = {calls'[k].cert}
         /\ calls'[k].cert.Type = CertificateTypeProduction]_vars

\* C34 witness: Deploy failed for a renewed certificate that replaced a stored
\* one, and the temporary certificate was deployed after it.
C34_Witness ==
  \E k \in DOMAIN calls, i \in 1..Len(certificates) :
    /\ calls[k].op = "Deploy" /\ ~calls[k].ok
    /\ k + 1 \in DOMAIN calls
    /\ calls[k + 1].op = "DeployTemporary" /\ calls[k + 1].ok
    /\ Swept(i) /\ certificates[i].Domain = calls[k].domain
    /\ certificates[i] \notin store
    /\ calls[k].cert \in store

\* C35: a sweep whose List fails makes no other call and changes nothing in
\* the store; the monitor is back in its select, where only the cancellation
\* ends it, and the next tick starts a new sweep with a new List.
C35_ListErrorEndsSweepOnly ==
  /\ [](ListFailed =>
          /\ certificates = <<>>
          /\ mpc \in {"waiting", "stopped"}
          /\ mpc = "stopped" => ctxDone
          /\ (mpc = "waiting" /\ ticks < MaxTicks) => ENABLED Tick)
  /\ [][ListFailed' /\ ticks' # ticks => store' = store /\ alerts' = alerts]_vars
  /\ [][ListFailed /\ ticks' # ticks =>
          /\ Len(calls') = 1
          /\ calls'[1].op = "List"]_vars

\* C35 witness: List failed on the second tick, with a due certificate in the
\* store, after the first tick's sweep had run.
C35_Witness ==
  /\ ListFailed
  /\ ticks = 2
  /\ mpc = "waiting"
  /\ ~ctxDone
  /\ \E c \in store : IsDue(c, now)

\* C36: GetCertificateStatus returns no status with the error when Retrieve
\* or CheckExpiration fails; on success a record for the domain is in the
\* store, the status string is determineStatus of the duration CheckExpiration
\* returned for it, and Domain, Type and Expiry are the record's.
C36_StatusOrError ==
  [][status' # status =>
       /\ status'.err \in {"retrieve", "check", "nil"}
       /\ status'.err # "nil" => status' = StatusError(status'.err)
       /\ status'.err = "check" => store # {}
       /\ status'.err = "nil" =>
            \E c \in StorageRetrieve(store, status'.Domain) :
              /\ status'.Type = c.Type
              /\ status'.Expiry = c.Expiry
              /\ status'.TimeUntilExpiry = CheckExpiration(c, now)
              /\ status'.Status = determineStatus(CheckExpiration(c, now))]_vars

\* C36 witness: CheckExpiration failed for a stored certificate and nothing
\* but the error was returned.
C36_Witness ==
  /\ status = StatusError("check")
  /\ store # {}
  /\ \A c \in store : c.Expiry - now < 0

\* The validator of the last configuration update reported errors.
ValidationFailed ==
  ccalls # <<>> /\ ccalls[1].op = "Validate" /\ Len(ccalls[1].errors) > 0

\* C37: an update whose validator reports at least one validation error
\* returns a non-nil error and makes neither a Store nor a Deploy call.
C37_ValidationErrorsBlockUpdate ==
  ValidationFailed =>
    /\ ~creq.emergency
    /\ cerr # "nil"
    /\ \A k \in DOMAIN ccalls : ccalls[k].op \notin {"Store", "Deploy"}

\* C38: an update calls Deploy only directly after a successful Store of the
\* same input; when Store fails it is the last call and its error is
\* returned; an emergency UpdateWAFRules calls no validator and starts with
\* Store; what is deployed in a step was stored in that step.
C38_StoreThenDeploy ==
  /\ [](\A k \in DOMAIN ccalls :
          /\ ccalls[k].op = "Deploy" =>
               /\ k > 1
               /\ ccalls[k - 1].op = "Store" /\ ccalls[k - 1].ok
               /\ ccalls[k - 1].data = Marshal(ccalls[k].data)
          /\ (ccalls[k].op = "Store" /\ ~ccalls[k].ok) =>
               /\ k = Len(ccalls)
               /\ cerr = "store")
  /\ [](creq.emergency =>
          /\ creq.op = "UpdateWAFRules"
          /\ \A k \in DOMAIN ccalls : ccalls[k].op # "Validate"
          /\ ccalls # <<>> => ccalls[1].op = "Store")
  /\ [][deployments' # deployments =>
          /\ Len(configs') = Len(configs) + 1
          /\ [Type |-> configs'[Len(configs')].Type,
              Input |-> configs'[Len(configs')].Data[2]] \in deployments']_vars
  /\ [][(cerr' = "store" /\ <<ccalls, creq, cerr>>' # <<ccalls, creq, cerr>>) =>
          configs' = configs /\ deployments' = deployments]_vars

\* C38 witness: an emergency UpdateWAFRules stored and then deployed its rules
\* without a validator call.
C38_Witness ==
  /\ creq.op = "UpdateWAFRules" /\ creq.emergency
  /\ Len(ccalls) = 2
  /\ ccalls[1].op = "Store" /\ ccalls[1].ok
  /\ ccalls[2].op = "Deploy" /\ ccalls[2].ok
  /\ Len(configs) = 1
  /\ deployments = {[Type |-> ConfigurationTypeWAF, Input |-> configs[1].Data[2]]}

\* C39: ApplyMigrations calls ApplyMigration for the pending migrations in the
\* order GetPendingMigrations returned them and returns at the first failure:
\* the migrations before it have been applied, none after it is attempted and
\* the error is returned; when GetPendingMigrations fails nothing is applied.
C39_MigrationsInOrderStopAtFirstFailure ==
  [][<<pending, applied, mcalls, merr>>' # <<pending, applied, mcalls, merr>> =>
       LET n == Len(mcalls') - 1
           failed == {k \in 1..n : ~mcalls'[k + 1].ok}
       IN /\ mcalls'[1].op = "GetPendingMigrations"
          /\ ~mcalls'[1].ok =>
               n = 0 /\ merr' = "get" /\ applied' = applied /\ pending' = pending
          /\ mcalls'[1].ok =>
               /\ n <= Len(pending)
               /\ \A k \in 1..n :
                    /\ mcalls'[k + 1].op = "ApplyMigration"
                    /\ mcalls'[k + 1].migration = pending[k]
               /\ failed \subseteq {n}
               /\ failed = {} => (n = Len(pending) /\ merr' = "nil")
               /\ failed # {} => merr' = "apply"
               /\ applied' = applied \o SubSeq(pending, 1, n - Cardinality(failed))]_vars

\* C39 witness: of three pending migrations returned in an order that is not
\* ascending, the second failed: the first was applied and the third was not
\* attempted.
C39_Witness ==
  /\ merr = "apply"
  /\ Len(mcalls) = 3
  /\ Len(applied) = 1
  /\ Len(pending) = 2
  /\ applied[1] > pending[1]
  /\ pending[1] = mcalls[3].migration
  /\ \A k \in DOMAIN mcalls : mcalls[k].migration # pending[2]

====
